---- MODULE Spec2Model ----
(***************************************************************************)
(* gptf: the placement / session substrate of WrappedTF                    *)
(* (src/gptf/wrappedtf.py).  A forest of WrappedTF nodes; every node has   *)
(* the fields _tf_device, _tf_session_target and _tf_session and the cache *)
(* of TreeWithCache.  Each method is a call frame on the calling thread's  *)
(* stack and advances one source statement at a time, so that hooks,       *)
(* close() and the stores are ordered as the source orders them and so     *)
(* that threads interleave between statements.                             *)
(***************************************************************************)
EXTENDS Integers, Sequences, FiniteSets, TLC

\* ---------------------------------------------------------------- bounds
NumNodes == 3
MaxSessions == 3
NumThreads == 2
\* sessions constructed in the runs with threads, and in those with devices
MaxConcSessions == 2
MaxDeviceSessions == 1
MaxHookSessions == 2
\* children of a reduction, rows of training data, latent outputs, query points
MaxExperts == 3
MaxRows == 6
MaxLatent == 2
MaxPoints == 2
\* experts handed to DistributedrBCM, and the branching factor of a layer
MaxLeaves == 4
MaxBranching == 3

Nodes == 1..NumNodes
Threads == 1..NumThreads
Sessions == 1..MaxSessions

\* ------------------------------------------------------ program constants
\* None, as the value of .parent and of ._tf_session
NoParent == 0
NoSession == 0
\* None as a session target, and one explicit target
NoTarget == "None"
Targets == {NoTarget, "grpc://master"}
\* None (inherit), the NO_DEVICE sentinel, and one explicit device
DeviceUnset == "None"
NO_DEVICE == "NO_DEVICE"
Devices == {DeviceUnset, NO_DEVICE, "/job:worker"}

\* the thread that runs alone in the sequential specifications, and the
\* only thread that assigns directives in the concurrent one
MainThread == CHOOSE t \in Threads : \A u \in Threads : t <= u
\* the root of the tree the threads share
MainRoot == CHOOSE n \in Nodes : \A m \in Nodes : n <= m

VARIABLES
    parent,             \* node -> its parent, or NoParent
    tf_device,          \* node -> _tf_device
    tf_session_target,  \* node -> _tf_session_target
    tf_session,         \* node -> _tf_session (a session, or NoSession)
    cache,              \* node -> whether its TreeWithCache.cache holds entries
    made,               \* number of ReusableContextSession objects constructed
    owner,              \* session -> the node it was constructed for, while it is open
    stack,              \* thread -> its call stack (a sequence of frames)
    ret,                \* thread -> the value the last frame returned
    cur,                \* thread -> the top-level call in progress
    res,                \* thread -> the top-level call that completed last
    raised,             \* thread -> whether its last call raised
    trace,              \* thread -> the session events of its current or last call
    mark,               \* root -> the session it held when its target was assigned
    hooks,              \* node -> the hooks it received since its root's mark
    retSince,           \* root -> what get_session returned since that assignment
    graph,              \* the default tf.Graph: its device stack and its name scope
    out                 \* the last call into gptf.distributed and its outcome

nodeVars == <<parent, tf_device, tf_session_target, tf_session, cache>>
sessVars == <<made, owner>>
threadVars == <<stack, ret, cur, res, raised>>
histVars == <<trace, mark, hooks, retSince>>
extVars == <<graph, out>>
vars == <<parent, tf_device, tf_session_target, tf_session, cache,
          made, owner, stack, ret, cur, res, raised,
          trace, mark, hooks, retSince, graph, out>>

\* ------------------------------------------------------------------ tree
\* n and every node above it
RECURSIVE Above(_)
Above(n) == IF parent[n] = NoParent THEN {n} ELSE {n} \cup Above(parent[n])

RECURSIVE highest_parent(_)
highest_parent(n) == IF parent[n] = NoParent THEN n ELSE highest_parent(parent[n])

\* n and every node below it
Subtree(n) == {m \in Nodes : n \in Above(m)}

Depth(n) == Cardinality(Above(n))

RECURSIVE OrderSet(_)
OrderSet(S) ==
    IF S = {} THEN <<>>
    ELSE LET m == CHOOSE x \in S : \A y \in S :
                      \/ Depth(x) < Depth(y)
                      \/ (Depth(x) = Depth(y) /\ x <= y)
         IN <<m>> \o OrderSet(S \ {m})

\* `for node in self`: the node itself first, then the nodes below it
SubtreeOrder(n) == OrderSet(Subtree(n))

\* ---------------------------------------------------------------- frames
Frame(fn, n, pc, v) == [fn |-> fn, self |-> n, pc |-> pc, todo |-> <<>>, val |-> v]

Busy(t) == stack[t] # <<>>
Top(t) == stack[t][Len(stack[t])]
At(t, pc) == Busy(t) /\ Top(t).pc = pc
Popped(t) == SubSeq(stack[t], 1, Len(stack[t]) - 1)
\* the stack with its top frame replaced by f
Replaced(t, f) == Popped(t) \o <<f>>

\* a top-level call: op on node with argument val; had is the session
\* stored when the call began (at the root for get_session, at the node
\* itself for an assignment)
Idle == [op |-> "none", node |-> NoParent, val |-> NoTarget, had |-> NoSession]
\* a completed call: it returned val, root was the node's root, prev the
\* last session returned for that root, open whether val was not closed
NoResult == [op |-> "none", node |-> NoParent, root |-> NoParent, val |-> NoSession,
             arg |-> NoTarget, had |-> NoSession, prev |-> NoSession, open |-> TRUE]

\* a session event: kind k at node n about session s (x: the target of a new one)
Event(k, n, s, x) == [k |-> k, n |-> n, s |-> s, x |-> x]

\* the events of a trace of kind k (at node n)
OfKind(tr, k) == LET Keep(e) == e.k = k IN SelectSeq(tr, Keep)
OfKindAt(tr, k, n) == LET Keep(e) == e.k = k /\ e.n = n IN SelectSeq(tr, Keep)

\* whether close() has been called on session s
IsClosed(s) == s # NoSession /\ s <= made /\ owner[s] = NoParent

\* a completed call is acknowledged when its thread starts the next one:
\* a get_session that returned for root r ends r's teardown window
Acked(t, r) == res[t].op = "get_session" /\ res[t].root = r
MarkAfterAck(t) == [r \in Nodes |-> IF Acked(t, r) THEN NoSession ELSE mark[r]]
HooksAfterAck(t) ==
    [n \in Nodes |-> IF Acked(t, highest_parent(n)) THEN <<>> ELSE hooks[n]]

\* node m receives hook k about session s: remembered while the teardown
\* window of m's root is open
HooksWith(m, k, s) ==
    IF mark[highest_parent(m)] # NoSession
    THEN [hooks EXCEPT ![m] = Append(@, [k |-> k, s |-> s])]
    ELSE hooks

\* thread t starts the top-level call op(n, v), whose first statement is pc
Begin(t, op, n, v, pc, had) ==
    /\ ~Busy(t)
    /\ stack' = [stack EXCEPT ![t] = <<Frame(op, n, pc, v)>>]
    /\ cur' = [cur EXCEPT ![t] = [op |-> op, node |-> n, val |-> v, had |-> had]]
    /\ res' = [res EXCEPT ![t] = NoResult]
    /\ raised' = [raised EXCEPT ![t] = FALSE]
    /\ trace' = [trace EXCEPT ![t] = <<>>]
    /\ UNCHANGED ret

\* the top frame of thread t returns v; when it is the last frame, the
\* top-level call completes with v
Leave(t, v) ==
    /\ stack' = [stack EXCEPT ![t] = Popped(t)]
    /\ UNCHANGED raised
    /\ IF Len(stack[t]) = 1
       THEN LET r == highest_parent(cur[t].node) IN
            /\ res' = [res EXCEPT ![t] =
                         [op |-> cur[t].op, node |-> cur[t].node, root |-> r,
                          val |-> v, arg |-> cur[t].val, had |-> cur[t].had,
                          prev |-> retSince[r], open |-> ~IsClosed(v)]]
            /\ retSince' = IF cur[t].op = "get_session"
                           THEN [retSince EXCEPT ![r] = v] ELSE retSince
            /\ cur' = [cur EXCEPT ![t] = Idle]
            /\ ret' = [ret EXCEPT ![t] = NoSession]
       ELSE /\ ret' = [ret EXCEPT ![t] = v]
            /\ UNCHANGED <<res, retSince, cur>>

\* the default graph outside every `with`: no device function, root name scope
EmptyGraph == [devices |-> <<>>, scope |-> <<>>]
\* no call into gptf.distributed made yet
NoOutcome == [fn |-> "none", arg |-> <<>>, ok |-> TRUE, val |-> <<>>]

\* ------------------------------------------------------------------ Init
Init ==
    /\ parent \in {p \in [Nodes -> {NoParent} \cup Nodes] :
                       \A n \in Nodes : p[n] = NoParent \/ p[n] < n}
    /\ tf_device = [n \in Nodes |-> DeviceUnset]
    /\ tf_session_target = [n \in Nodes |-> NoTarget]
    /\ tf_session = [n \in Nodes |-> NoSession]
    /\ cache = [n \in Nodes |-> FALSE]
    /\ made = 0
    /\ owner = [s \in Sessions |-> NoParent]
    /\ stack = [t \in Threads |-> <<>>]
    /\ ret = [t \in Threads |-> NoSession]
    /\ cur = [t \in Threads |-> Idle]
    /\ res = [t \in Threads |-> NoResult]
    /\ raised = [t \in Threads |-> FALSE]
    /\ trace = [t \in Threads |-> <<>>]
    /\ mark = [n \in Nodes |-> NoSession]
    /\ hooks = [n \in Nodes |-> <<>>]
    /\ retSince = [n \in Nodes |-> NoSession]
    /\ graph = EmptyGraph
    /\ out = NoOutcome

\* ------------------------------------------------------- WrappedTF, pure
\* (variant: every node takes itself for the owner of the session)
IsSessionOwnerAlways(n) == TRUE

\* get_session: `if self.parent is None`
IsSessionOwner(n) == parent[n] = NoParent

\* (variant: the test for a stored session is dropped)
NeedsCreateAlways(n) == TRUE

\* _maybe_create_session: `if self._tf_session is None`
NeedsCreate(n) == tf_session[n] = NoSession

\* new_session(): the target the new ReusableContextSession is built with
\* (None: no argument; a dict: keyword arguments; else the sole argument)
new_session(n) == tf_session_target[n]

\* (variant: only the node itself is told)
BirthNodesSelfOnly(n) == <<n>>

\* _maybe_create_session: `for node in self: node.on_session_birth()`
BirthNodes(n) == SubtreeOrder(n)

\* (variant: the test is inverted)
NeedsKillInverted(n) == tf_session[n] = NoSession

\* _maybe_kill_session: `if self._tf_session is not None`
NeedsKill(n) == tf_session[n] # NoSession

\* (variant: the node itself is left out)
DeathNodesBelowOnly(n) == Tail(SubtreeOrder(n))

\* _maybe_kill_session: `for node in self: node.on_session_death()`
DeathNodes(n) == SubtreeOrder(n)

\* TreeWithCache.clear_subtree_cache(): the caches after clearing below n
clear_subtree_cache(n) == [m \in Nodes |-> IF m \in Subtree(n) THEN FALSE ELSE cache[m]]

\* (variant: the call is left out)
DeviceInvalidatesNothing(n) == cache

\* tf_device.setter: `self.clear_subtree_cache()`, the caches it leaves
DeviceInvalidates(n) == clear_subtree_cache(n)

\* ------------------------------------------------------------ get_session
get_session_call(t, n) ==
    /\ Begin(t, "get_session", n, NoTarget, "gs_enter", tf_session[highest_parent(n)])
    /\ mark' = MarkAfterAck(t)
    /\ hooks' = HooksAfterAck(t)
    /\ UNCHANGED <<nodeVars, sessVars, retSince>>
    /\ UNCHANGED extVars

\* if self.parent is None: self._maybe_create_session() ...
\* else: return self.highest_parent.get_session()
get_session_enter(t) ==
    /\ At(t, "gs_enter")
    /\ LET f == Top(t) IN
       stack' = [stack EXCEPT ![t] =
          IF IsSessionOwner(f.self)
          THEN Replaced(t, [f EXCEPT !.pc = "gs_return"])
                 \o <<Frame("_maybe_create_session", f.self, "mc_test", NoTarget)>>
          ELSE Replaced(t, [f EXCEPT !.pc = "gs_forward"])
                 \o <<Frame("get_session", highest_parent(f.self), "gs_enter", NoTarget)>>]
    /\ UNCHANGED <<nodeVars, sessVars, histVars, ret, cur, res, raised>>
    /\ UNCHANGED extVars

\* return self._tf_session
get_session_return(t) ==
    /\ At(t, "gs_return")
    /\ Leave(t, tf_session[Top(t).self])
    /\ UNCHANGED <<nodeVars, sessVars, trace, mark, hooks>>
    /\ UNCHANGED extVars

\* return <what self.highest_parent.get_session() returned>
get_session_forward(t) ==
    /\ At(t, "gs_forward")
    /\ Leave(t, ret[t])
    /\ UNCHANGED <<nodeVars, sessVars, trace, mark, hooks>>
    /\ UNCHANGED extVars

\* -------------------------------------------------- _maybe_create_session
\* if self._tf_session is None:
maybe_create_session_test(t) ==
    /\ At(t, "mc_test")
    /\ IF NeedsCreate(Top(t).self)
       THEN /\ stack' = [stack EXCEPT ![t] = Replaced(t, [Top(t) EXCEPT !.pc = "mc_new"])]
            /\ UNCHANGED <<ret, cur, res, raised, retSince>>
       ELSE Leave(t, NoSession)
    /\ UNCHANGED <<nodeVars, sessVars, trace, mark, hooks>>
    /\ UNCHANGED extVars

\* self._tf_session = new_session()
maybe_create_session_new(t) ==
    /\ At(t, "mc_new")
    /\ made < MaxSessions
    /\ LET f == Top(t)
           s == made + 1
       IN /\ made' = s
          /\ owner' = [owner EXCEPT ![s] = f.self]
          /\ tf_session' = [tf_session EXCEPT ![f.self] = s]
          /\ trace' = [trace EXCEPT ![t] = Append(@, Event("new", f.self, s, new_session(f.self)))]
          /\ stack' = [stack EXCEPT ![t] =
                Replaced(t, [f EXCEPT !.pc = "mc_birth", !.todo = BirthNodes(f.self)])]
    /\ UNCHANGED <<parent, tf_device, tf_session_target, cache,
                   ret, cur, res, raised, mark, hooks, retSince>>
    /\ UNCHANGED extVars

\* for node in self: node.on_session_birth()
maybe_create_session_birth(t) ==
    /\ At(t, "mc_birth")
    /\ LET f == Top(t) IN
       IF f.todo = <<>>
       THEN Leave(t, NoSession) /\ UNCHANGED <<trace, hooks>>
       ELSE /\ trace' = [trace EXCEPT ![t] =
                  Append(@, Event("birth", Head(f.todo), tf_session[f.self], NoTarget))]
            /\ hooks' = HooksWith(Head(f.todo), "birth", tf_session[f.self])
            /\ stack' = [stack EXCEPT ![t] = Replaced(t, [f EXCEPT !.todo = Tail(f.todo)])]
            /\ UNCHANGED <<ret, cur, res, raised, retSince>>
    /\ UNCHANGED <<nodeVars, sessVars, mark>>
    /\ UNCHANGED extVars

\* ---------------------------------------------------- _maybe_kill_session
\* if self._tf_session is not None:
maybe_kill_session_test(t) ==
    /\ At(t, "mk_test")
    /\ LET f == Top(t) IN
       IF NeedsKill(f.self)
       THEN /\ stack' = [stack EXCEPT ![t] =
                  Replaced(t, [f EXCEPT !.pc = "mk_death", !.todo = DeathNodes(f.self)])]
            /\ UNCHANGED <<ret, cur, res, raised, retSince>>
       ELSE Leave(t, NoSession)
    /\ UNCHANGED <<nodeVars, sessVars, trace, mark, hooks>>
    /\ UNCHANGED extVars

\* for node in self: node.on_session_death()
maybe_kill_session_death(t) ==
    /\ At(t, "mk_death")
    /\ LET f == Top(t) IN
       IF f.todo = <<>>
       THEN /\ stack' = [stack EXCEPT ![t] = Replaced(t, [f EXCEPT !.pc = "mk_close"])]
            /\ UNCHANGED <<trace, hooks>>
       ELSE /\ trace' = [trace EXCEPT ![t] =
                  Append(@, Event("death", Head(f.todo), tf_session[f.self], NoTarget))]
            /\ hooks' = HooksWith(Head(f.todo), "death", tf_session[f.self])
            /\ stack' = [stack EXCEPT ![t] = Replaced(t, [f EXCEPT !.todo = Tail(f.todo)])]
    /\ UNCHANGED <<nodeVars, sessVars, ret, cur, res, raised, mark, retSince>>
    /\ UNCHANGED extVars

\* self._tf_session.close(); on None the attribute lookup raises and the
\* call unwinds
maybe_kill_session_close(t) ==
    /\ At(t, "mk_close")
    /\ LET f == Top(t) IN
       IF tf_session[f.self] = NoSession
       THEN /\ stack' = [stack EXCEPT ![t] = <<>>]
            /\ raised' = [raised EXCEPT ![t] = TRUE]
            /\ res' = [res EXCEPT ![t] = [NoResult EXCEPT !.op = cur[t].op,
                                            !.node = cur[t].node, !.had = cur[t].had]]
            /\ cur' = [cur EXCEPT ![t] = Idle]
            /\ ret' = [ret EXCEPT ![t] = NoSession]
            /\ UNCHANGED <<owner, trace>>
       ELSE /\ owner' = [owner EXCEPT ![tf_session[f.self]] = NoParent]
            /\ trace' = [trace EXCEPT ![t] =
                  Append(@, Event("close", f.self, tf_session[f.self], NoTarget))]
            /\ stack' = [stack EXCEPT ![t] = Replaced(t, [f EXCEPT !.pc = "mk_clear"])]
            /\ UNCHANGED <<raised, res, cur, ret>>
    /\ UNCHANGED <<nodeVars, made, mark, hooks, retSince>>
    /\ UNCHANGED extVars

\* self._tf_session = None
maybe_kill_session_clear(t) ==
    /\ At(t, "mk_clear")
    /\ tf_session' = [tf_session EXCEPT ![Top(t).self] = NoSession]
    /\ trace' = [trace EXCEPT ![t] =
          Append(@, Event("clear", Top(t).self, tf_session[Top(t).self], NoTarget))]
    /\ Leave(t, NoSession)
    /\ UNCHANGED <<parent, tf_device, tf_session_target, cache, sessVars, mark, hooks>>
    /\ UNCHANGED extVars

\* ------------------------------------------------ tf_session_target.setter
tf_session_target_call(t, n, v) ==
    /\ Begin(t, "tf_session_target", n, v, "st_kill", tf_session[n])
    /\ LET opens == parent[n] = NoParent /\ tf_session[n] # NoSession IN
       /\ mark' = [MarkAfterAck(t) EXCEPT ![n] = IF opens THEN tf_session[n] ELSE @]
       /\ hooks' = [m \in Nodes |-> IF opens /\ m \in Subtree(n)
                                    THEN <<>> ELSE HooksAfterAck(t)[m]]
    /\ retSince' = [retSince EXCEPT ![n] = NoSession]
    /\ UNCHANGED <<nodeVars, sessVars>>
    /\ UNCHANGED extVars

\* self._maybe_kill_session()
tf_session_target_kill(t) ==
    /\ At(t, "st_kill")
    /\ stack' = [stack EXCEPT ![t] =
          Replaced(t, [Top(t) EXCEPT !.pc = "st_store"])
            \o <<Frame("_maybe_kill_session", Top(t).self, "mk_test", NoTarget)>>]
    /\ UNCHANGED <<nodeVars, sessVars, histVars, ret, cur, res, raised>>
    /\ UNCHANGED extVars

\* (variant: the setter clears the caches as the tf_device setter does)
StoreTargetClearing(n, v) ==
    /\ tf_session_target' = [tf_session_target EXCEPT ![n] = v]
    /\ cache' = clear_subtree_cache(n)
    /\ UNCHANGED <<parent, tf_device, tf_session>>

\* self._tf_session_target = value: the fields the statement writes
StoreTarget(n, v) ==
    /\ tf_session_target' = [tf_session_target EXCEPT ![n] = v]
    /\ UNCHANGED <<parent, tf_device, tf_session, cache>>

tf_session_target_store(t) ==
    /\ At(t, "st_store")
    /\ StoreTarget(Top(t).self, Top(t).val)
    /\ Leave(t, NoSession)
    /\ UNCHANGED <<sessVars, trace, mark, hooks>>
    /\ UNCHANGED extVars

\* ------------------------------------------------------- tf_device.setter
tf_device_call(t, n, v) ==
    /\ Begin(t, "tf_device", n, v, "sd_clear", tf_session[n])
    /\ mark' = MarkAfterAck(t)
    /\ hooks' = HooksAfterAck(t)
    /\ UNCHANGED <<nodeVars, sessVars, retSince>>
    /\ UNCHANGED extVars

\* self.clear_subtree_cache()
tf_device_clear(t) ==
    /\ At(t, "sd_clear")
    /\ cache' = DeviceInvalidates(Top(t).self)
    /\ stack' = [stack EXCEPT ![t] = Replaced(t, [Top(t) EXCEPT !.pc = "sd_store"])]
    /\ UNCHANGED <<parent, tf_device, tf_session_target, tf_session, sessVars,
                   histVars, ret, cur, res, raised>>
    /\ UNCHANGED extVars

\* self._tf_device = value
tf_device_store(t) ==
    /\ At(t, "sd_store")
    /\ tf_device' = [tf_device EXCEPT ![Top(t).self] = Top(t).val]
    /\ Leave(t, NoSession)
    /\ UNCHANGED <<parent, tf_session_target, tf_session, cache, sessVars,
                   trace, mark, hooks>>
    /\ UNCHANGED extVars

\* ------------------------------------------------- tree and cache, atomic
\* a one-statement call by thread t that completes with result r
Atomic(t, r) ==
    /\ ~Busy(t)
    /\ res' = [res EXCEPT ![t] = r]
    /\ trace' = [trace EXCEPT ![t] = <<>>]
    /\ mark' = MarkAfterAck(t)
    /\ hooks' = HooksAfterAck(t)
    /\ UNCHANGED <<stack, ret, cur, raised, retSince, sessVars>>
    /\ UNCHANGED extVars

\* a collaborator stores a computed value in node n's cache
fill_cache(t, n) ==
    /\ Atomic(t, NoResult)
    /\ cache' = [cache EXCEPT ![n] = TRUE]
    /\ UNCHANGED <<parent, tf_device, tf_session_target, tf_session>>

\* __setattr__(p, name, n): the root n becomes a child of p
setattr_attach(t, p, n) ==
    /\ parent[n] = NoParent
    /\ n \notin Above(p)
    /\ Atomic(t, [NoResult EXCEPT !.op = "setattr", !.node = n])
    /\ parent' = [parent EXCEPT ![n] = p]
    /\ UNCHANGED <<tf_device, tf_session_target, tf_session, cache>>

\* __delattr__(parent[n], name): the child n becomes a root again
delattr_detach(t, n) ==
    /\ parent[n] # NoParent
    /\ Atomic(t, [NoResult EXCEPT !.op = "delattr", !.node = n])
    /\ parent' = [parent EXCEPT ![n] = NoParent]
    /\ UNCHANGED <<tf_device, tf_session_target, tf_session, cache>>

\* ------------------------------------------------- tensorflow device specs
\* the device strings assigned besides None and NO_DEVICE
DeviceStrings == {"/job:worker", "/job:spoon", "/device:GPU:0"}
Directives == {DeviceUnset, NO_DEVICE} \cup DeviceStrings

\* a device spec with no field set; the device of an op outside every context
EmptySpec == [job |-> "", device |-> ""]

\* tf.DeviceSpec.from_string
from_string(d) ==
    CASE d = "/job:worker" -> [job |-> "worker", device |-> ""]
      [] d = "/job:spoon" -> [job |-> "spoon", device |-> ""]
      [] d = "/device:GPU:0" -> [job |-> "", device |-> "GPU:0"]
      [] OTHER -> EmptySpec

\* tf.device(spec) as a device function: the fields the op already has
\* win, the others come from spec
merge_device(spec, op) ==
    [job |-> IF op.job # "" THEN op.job ELSE spec.job,
     device |-> IF op.device # "" THEN op.device ELSE spec.device]

\* the device an op gets under the device stack devs: the functions are
\* applied innermost first, and a None function ends the walk
RECURSIVE apply_device_functions(_, _)
apply_device_functions(devs, op) ==
    IF devs = <<>> THEN op
    ELSE LET f == devs[Len(devs)] IN
         IF f = "None" THEN op
         ELSE apply_device_functions(SubSeq(devs, 1, Len(devs) - 1),
                                     merge_device(from_string(f), op))

\* the device of an op created now
OpDevice == apply_device_functions(graph.devices, EmptySpec)

\* TreeWithCache.long_name: the path of the node from its root
RECURSIVE long_name(_)
long_name(n) == IF parent[n] = NoParent THEN <<n>> ELSE Append(long_name(parent[n]), n)

\* the name scopes opened for a node and for a method of it
NodeScope(n) == <<long_name(n), "/">>
MethodScope(n) == <<long_name(n), ".method/">>

\* --------------------------------------------------- op_placement_context
\* an entered context, as the ExitStack (or the with statement) keeps it:
\* a tf.device, a tf.name_scope with the scope it replaced, or a suspended
\* op_placement_context generator with its own ExitStack
DeviceCtx(id) == [k |-> "device", id |-> id, old |-> <<>>, es |-> <<>>]
ScopeCtx(id, old) == [k |-> "name_scope", id |-> id, old |-> old, es |-> <<>>]
GenCtx(id, n, es) == [k |-> "op_placement_context", id |-> id, old |-> <<n>>, es |-> es]

\* context events of the call in progress: enter and exit, by context id
Entered(t) == Len(OfKind(trace[t], "enter"))
EnterEvent(id) == Event("enter", NoParent, id, NoTarget)
ExitEvent(id) == Event("exit", NoParent, id, NoTarget)

\* the state of an activation: the graph when it was called, and whether
\* an exception is propagating through it
Activation(exc) == [saved |-> graph, exc |-> exc]

\* (variant: the contexts are exited in the order they were entered)
ExitOrderFifo(es) == es

\* ExitStack.__exit__ and the with statement: last entered, first exited
ExitOrder(es) == [i \in 1..Len(es) |-> es[Len(es) + 1 - i]]

\* (variant: NO_DEVICE is entered as a device string like any other)
DeviceFunctionKeepsSentinel(d) == d

\* `if dev is self.NO_DEVICE: dev = None`: what is passed to tf.device
DeviceFunction(d) == IF d = NO_DEVICE THEN "None" ELSE d

\* `if self.parent is not None`
HasParentContext(n) == parent[n] # NoParent

\* the top activation of thread t ends; with the last one the top-level
\* call completes, and an exception leaves it as raised
Unwind(t, exc) ==
    /\ cur' = [cur EXCEPT ![t] = IF Len(stack[t]) = 1 THEN Idle ELSE @]
    /\ res' = [res EXCEPT ![t] =
                 IF Len(stack[t]) = 1
                 THEN [NoResult EXCEPT !.op = cur[t].op, !.node = cur[t].node,
                                       !.root = highest_parent(cur[t].node)]
                 ELSE @]
    /\ raised' = [raised EXCEPT ![t] = IF Len(stack[t]) = 1 THEN exc ELSE @]

\* `with n.op_placement_context():` at top level
op_placement_context_call(t, n) ==
    /\ graph = EmptyGraph
    /\ Begin(t, "op_placement_context", n, Activation(FALSE), "pc_parent", NoSession)
    /\ UNCHANGED <<nodeVars, sessVars, mark, hooks, retSince, extVars>>

\* if self.parent is not None:
\*     stack.enter_context(self.parent.op_placement_context())
op_placement_context_parent(t) ==
    /\ At(t, "pc_parent")
    /\ LET f == Top(t) IN
       stack' = [stack EXCEPT ![t] =
          IF HasParentContext(f.self)
          THEN Replaced(t, [f EXCEPT !.pc = "pc_device"])
                 \o <<Frame("op_placement_context", parent[f.self], "pc_parent",
                            Activation(FALSE))>>
          ELSE Replaced(t, [f EXCEPT !.pc = "pc_device"])]
    /\ UNCHANGED <<nodeVars, sessVars, histVars, extVars, ret, cur, res, raised>>

\* if self.tf_device is not None: ... stack.enter_context(tf.device(dev))
op_placement_context_device(t) ==
    /\ At(t, "pc_device")
    /\ LET f == Top(t)
           id == Entered(t) + 1
       IN IF tf_device[f.self] # DeviceUnset
          THEN /\ graph' = [graph EXCEPT !.devices =
                               Append(@, DeviceFunction(tf_device[f.self]))]
               /\ trace' = [trace EXCEPT ![t] = Append(@, EnterEvent(id))]
               /\ stack' = [stack EXCEPT ![t] = Replaced(t,
                     [f EXCEPT !.pc = "pc_scope", !.todo = Append(@, DeviceCtx(id))])]
          ELSE /\ stack' = [stack EXCEPT ![t] = Replaced(t, [f EXCEPT !.pc = "pc_scope"])]
               /\ UNCHANGED <<graph, trace>>
    /\ UNCHANGED <<nodeVars, sessVars, mark, hooks, retSince, out, ret, cur, res, raised>>

\* stack.enter_context(tf.name_scope(self.long_name + "/"))
op_placement_context_scope(t) ==
    /\ At(t, "pc_scope")
    /\ LET f == Top(t)
           id == Entered(t) + 1
       IN /\ graph' = [graph EXCEPT !.scope = NodeScope(f.self)]
          /\ trace' = [trace EXCEPT ![t] = Append(@, EnterEvent(id))]
          /\ stack' = [stack EXCEPT ![t] = Replaced(t,
                [f EXCEPT !.pc = "pc_yield", !.todo = Append(@, ScopeCtx(id, graph.scope))])]
    /\ UNCHANGED <<nodeVars, sessVars, mark, hooks, retSince, out, ret, cur, res, raised>>

\* yield: the generator is suspended and its caller goes on, holding it
\* as an entered context; at top level the body of the with statement
\* runs and ends, normally or by an exception
op_placement_context_yield(t) ==
    /\ At(t, "pc_yield")
    /\ LET f == Top(t)
           id == Entered(t) + 1
       IN IF Len(stack[t]) = 1
          THEN /\ \E exc \in BOOLEAN :
                    stack' = [stack EXCEPT ![t] = Replaced(t,
                       [f EXCEPT !.pc = "pc_exit", !.todo = ExitOrder(f.todo),
                                 !.val.exc = exc])]
               /\ UNCHANGED trace
          ELSE LET c == stack[t][Len(stack[t]) - 1] IN
               /\ stack' = [stack EXCEPT ![t] =
                     SubSeq(stack[t], 1, Len(stack[t]) - 2)
                       \o <<[c EXCEPT !.todo = Append(@, GenCtx(id, f.self, f.todo))]>>]
               /\ trace' = [trace EXCEPT ![t] = Append(@, EnterEvent(id))]
    /\ UNCHANGED <<nodeVars, sessVars, mark, hooks, retSince, extVars, ret, cur, res, raised>>

\* one step of leaving the contexts held by the top activation: a
\* tf.device is popped, a tf.name_scope puts back the scope it replaced,
\* a suspended generator is resumed after its yield and leaves its own
ExitContext(t, f, next) ==
    LET c == Head(f.todo)
        g == [f EXCEPT !.todo = Tail(f.todo), !.pc = next]
    IN /\ trace' = [trace EXCEPT ![t] = Append(@, ExitEvent(c.id))]
       /\ CASE c.k = "device" ->
                 /\ graph' = [graph EXCEPT !.devices = SubSeq(@, 1, Len(@) - 1)]
                 /\ stack' = [stack EXCEPT ![t] = Replaced(t, g)]
            [] c.k = "name_scope" ->
                 /\ graph' = [graph EXCEPT !.scope = c.old]
                 /\ stack' = [stack EXCEPT ![t] = Replaced(t, g)]
            [] OTHER ->
                 /\ UNCHANGED graph
                 /\ stack' = [stack EXCEPT ![t] = Replaced(t, g) \o
                       <<[Frame("op_placement_context", c.old[1], "pc_exit",
                                [saved |-> graph, exc |-> f.val.exc])
                            EXCEPT !.todo = ExitOrder(c.es)]>>]

\* the end of `with ExitStack() as stack:`
op_placement_context_exit(t) ==
    /\ At(t, "pc_exit")
    /\ LET f == Top(t) IN
       IF f.todo = <<>>
       THEN /\ stack' = [stack EXCEPT ![t] = Popped(t)]
            /\ Unwind(t, f.val.exc)
            /\ UNCHANGED <<graph, trace>>
       ELSE /\ ExitContext(t, f, "pc_exit")
            /\ UNCHANGED <<cur, res, raised>>
    /\ UNCHANGED <<nodeVars, sessVars, mark, hooks, retSince, out, ret>>

\* --------------------------------------------------------------- tf_method
\* a call of a decorated method of node n, at top level
tf_method_call(t, n) ==
    /\ graph = EmptyGraph
    /\ Begin(t, "tf_method", n, Activation(FALSE), "tm_enter", NoSession)
    /\ UNCHANGED <<nodeVars, sessVars, mark, hooks, retSince, extVars>>

\* with instance.op_placement_context(), ...
tf_method_enter(t) ==
    /\ At(t, "tm_enter")
    /\ stack' = [stack EXCEPT ![t] =
          Replaced(t, [Top(t) EXCEPT !.pc = "tm_scope"])
            \o <<Frame("op_placement_context", Top(t).self, "pc_parent",
                       Activation(FALSE))>>]
    /\ UNCHANGED <<nodeVars, sessVars, histVars, extVars, ret, cur, res, raised>>

\* ..., tf.name_scope(scope):
tf_method_scope(t) ==
    /\ At(t, "tm_scope")
    /\ LET f == Top(t)
           id == Entered(t) + 1
       IN /\ graph' = [graph EXCEPT !.scope = MethodScope(f.self)]
          /\ trace' = [trace EXCEPT ![t] = Append(@, EnterEvent(id))]
          /\ stack' = [stack EXCEPT ![t] = Replaced(t,
                [f EXCEPT !.pc = "tm_body", !.todo = Append(@, ScopeCtx(id, graph.scope))])]
    /\ UNCHANGED <<nodeVars, sessVars, mark, hooks, retSince, out, ret, cur, res, raised>>

\* return method(instance, ...): the body returns or raises
tf_method_body_ends(t) ==
    /\ At(t, "tm_body") \/ At(t, "tm_tail")
    /\ \E exc \in BOOLEAN :
         stack' = [stack EXCEPT ![t] = Replaced(t,
            [Top(t) EXCEPT !.pc = "tm_exit", !.todo = ExitOrder(Top(t).todo),
                           !.val.exc = exc])]
    /\ UNCHANGED <<nodeVars, sessVars, histVars, extVars, ret, cur, res, raised>>

\* the body calls a decorated method of a child c of its node
tf_method_body_calls(t, c) ==
    /\ At(t, "tm_body")
    /\ parent[c] = Top(t).self
    /\ stack' = [stack EXCEPT ![t] =
          Replaced(t, [Top(t) EXCEPT !.pc = "tm_tail"])
            \o <<Frame("tf_method", c, "tm_enter", Activation(FALSE))>>]
    /\ UNCHANGED <<nodeVars, sessVars, histVars, extVars, ret, cur, res, raised>>

\* the end of the with statement: the contexts are left, then the call
\* returns, or the exception goes on into the calling body
tf_method_exit(t) ==
    /\ At(t, "tm_exit")
    /\ LET f == Top(t) IN
       IF f.todo # <<>>
       THEN /\ ExitContext(t, f, "tm_exit")
            /\ UNCHANGED <<cur, res, raised>>
       ELSE /\ UNCHANGED <<graph, trace>>
            /\ Unwind(t, f.val.exc)
            /\ stack' = [stack EXCEPT ![t] =
                  IF Len(stack[t]) > 1 /\ f.val.exc
                  THEN LET c == stack[t][Len(stack[t]) - 1] IN
                       SubSeq(stack[t], 1, Len(stack[t]) - 2)
                         \o <<[c EXCEPT !.pc = "tm_exit", !.todo = ExitOrder(c.todo),
                                        !.val.exc = TRUE]>>
                  ELSE Popped(t)]
    /\ UNCHANGED <<nodeVars, sessVars, mark, hooks, retSince, out, ret>>

\* ------------------------------------------------------- numbers, tensors
\* float64 values, kept as exact fractions <<numerator, denominator>> in
\* lowest terms; a zero denominator stands for a non-finite value
RECURSIVE GCD(_, _)
GCD(a, b) == IF b = 0 THEN a ELSE GCD(b, a % b)

Abs(a) == IF a < 0 THEN 0 - a ELSE a

NonFinite == <<1, 0>>

Frac(n, d) ==
    IF d = 0 THEN NonFinite
    ELSE LET g == GCD(Abs(n), Abs(d))
             sgn == IF d < 0 THEN 0 - 1 ELSE 1
         IN <<(sgn * n) \div g, (sgn * d) \div g>>

Whole(n) == <<n, 1>>

IsFinite(a) == a[2] # 0

\* +, -, *, / on float64
add(a, b) == IF IsFinite(a) /\ IsFinite(b)
             THEN Frac(a[1] * b[2] + b[1] * a[2], a[2] * b[2]) ELSE NonFinite
sub(a, b) == IF IsFinite(a) /\ IsFinite(b)
             THEN Frac(a[1] * b[2] - b[1] * a[2], a[2] * b[2]) ELSE NonFinite
mul(a, b) == IF IsFinite(a) /\ IsFinite(b)
             THEN Frac(a[1] * b[1], a[2] * b[2]) ELSE NonFinite
div(a, b) == IF IsFinite(a) /\ IsFinite(b)
             THEN Frac(a[1] * b[2], a[2] * b[1]) ELSE NonFinite

\* a rank-2 tensor is the sequence of its rows; its shape
Shape(T) == <<Len(T), IF T = <<>> THEN 0 ELSE Len(T[1])>>

\* tf.fill(dims, value), tf.ones(dims)
fill(rows, cols, v) == [i \in 1..rows |-> [j \in 1..cols |-> v]]

\* an elementwise operation on two tensors with as many rows; a column
\* dimension of 1 is broadcast against the other
Elementwise(Op(_, _), A, B) ==
    LET cols == IF Shape(A)[2] >= Shape(B)[2] THEN Shape(A)[2] ELSE Shape(B)[2]
        at(T, i, j) == IF Shape(T)[2] = 1 THEN T[i][1] ELSE T[i][j]
    IN [i \in 1..Len(A) |-> [j \in 1..cols |-> Op(at(A, i, j), at(B, i, j))]]

\* an operation between a Python number and a tensor: `1 / var`, `1 - w`
ScalarLeft(Op(_, _), a, T) ==
    [i \in 1..Len(T) |-> [j \in 1..Len(T[i]) |-> Op(a, T[i][j])]]

\* `T / M`
ScalarRight(Op(_, _), T, a) ==
    [i \in 1..Len(T) |-> [j \in 1..Len(T[i]) |-> Op(T[i][j], a)]]

\* tf.reduce_sum(tf.pack(Ts, 0), 0): the elementwise sum of a list of
\* tensors of one shape
RECURSIVE reduce_sum(_)
reduce_sum(Ts) ==
    IF Len(Ts) = 1 THEN Ts[1]
    ELSE Elementwise(add, reduce_sum(SubSeq(Ts, 1, Len(Ts) - 1)), Ts[Len(Ts)])

\* the sum of the entries of column l of a tensor
RECURSIVE ColumnSum(_, _)
ColumnSum(T, l) ==
    IF T = <<>> THEN Whole(0) ELSE add(T[1][l], ColumnSum(Tail(T), l))

\* --------------------------------------------------------- call outcomes
Ok(v) == [ok |-> TRUE, val |-> v]
Raise(e) == [ok |-> FALSE, val |-> e]

\* ------------------------------------------------------- data and experts
\* training inputs X (n rows, the row number as the only coordinate) and
\* outputs Y (n rows, L columns, every row different)
DataX(n) == [i \in 1..n |-> <<Whole(i)>>]
DataY(n, L) == [i \in 1..n |-> [l \in 1..L |-> Whole(i + l - 2)]]
Points(m) == [i \in 1..m |-> <<Whole(0 - i)>>]

\* a leaf expert (a GPModel that is no reduction): a stub that answers
\* with constants, or a conjugate normal model with unit noise whose
\* posterior depends on the chunk it is given
ConstExpert(mu, var, pvar) == [kind |-> "const", mu |-> mu, var |-> var, pvar |-> pvar]
BayesExpert(pvar) == [kind |-> "bayes", mu |-> Whole(0), var |-> Whole(1), pvar |-> pvar]

Experts == {ConstExpert(Whole(0), Whole(1), Whole(1)),
            ConstExpert(Whole(1), Frac(1, 2), Whole(2)),
            BayesExpert(Whole(1))}

\* expert.build_prior_mean_var(points, num_latent, full_cov): zero mean;
\* the variance is [m, L], or [m, m, L] with full_cov
expert_prior(e, points, L, full_cov) ==
    LET m == Len(points) IN
    Ok(<<fill(m, L, Whole(0)),
         IF full_cov
         THEN [i \in 1..m |-> [j \in 1..m |->
                  [l \in 1..L |-> IF i = j THEN e.pvar ELSE Whole(0)]]]
         ELSE fill(m, L, e.pvar)>>)

\* expert.build_posterior_mean_var(Xk, Yk, points, full_cov)
expert_posterior(e, Xk, Yk, points, full_cov) ==
    LET m == Len(points)
        L == Shape(Yk)[2]
        prec == add(div(Whole(1), e.pvar), Whole(Len(Xk)))
        mean == [i \in 1..m |-> [l \in 1..L |->
                    IF e.kind = "const" THEN e.mu ELSE div(ColumnSum(Yk, l), prec)]]
        var == IF e.kind = "const" THEN e.var ELSE div(Whole(1), prec)
    IN Ok(<<mean,
            IF full_cov
            THEN [i \in 1..m |-> [j \in 1..m |->
                     [l \in 1..L |-> IF i = j THEN var ELSE Whole(0)]]]
            ELSE fill(m, L, var)>>)

\* expert.build_log_likelihood(Xk, Yk): minus the sum of squares of Yk
expert_log_likelihood(e, Xk, Yk) ==
    LET sq == Elementwise(mul, Yk, Yk)
        tot == reduce_sum([l \in 1..Shape(Yk)[2] |-> <<<<ColumnSum(sq, l)>>>>])
    IN Ok(sub(Whole(0), add(tot[1][1], e.pvar)))

\* ------------------------------------------------------ weight functions
\* np.finfo(np.float64).eps, and .5 * (log(prior) - log(posterior)) where
\* it is above eps: kept as symbols, their values not being fractions
Eps == <<"eps">>
HalfLogRatio(pvar, var) ==
    LET r == div(pvar, var) IN
    IF IsFinite(r) /\ r[1] > r[2] THEN <<"half_log", r>> ELSE Eps

\* cao_fleet_weights(experts, X, Y, points)
cao_fleet_weights(experts, X, Y, points) ==
    LET L == Shape(Y)[2]
        weight(e) ==
            LET prior_var == expert_prior(e, points, L, FALSE).val[2]
                post_var == expert_posterior(e, X, Y, points, FALSE).val[2]
            IN [i \in 1..Len(prior_var) |-> [l \in 1..Len(prior_var[i]) |->
                   HalfLogRatio(prior_var[i][l], post_var[i][l])]]
    IN [k \in 1..Len(experts) |-> weight(experts[k])]

\* equal_weights(experts, X, Y, points)
equal_weights(experts, X, Y, points) ==
    LET beta == Frac(1, Len(experts)) IN
    [k \in 1..Len(experts) |-> fill(Len(points), 1, beta)]

\* ones_weights(experts, X, Y, points)
ones_weights(experts, X, Y, points) ==
    [k \in 1..Len(experts) |-> fill(Len(points), 1, Whole(1))]

\* a weight function of the caller's: expert k of M gets 2k / (M (M + 1))
ranked_weights(experts, X, Y, points) ==
    LET M == Len(experts) IN
    [k \in 1..M |-> fill(Len(points), 1, Frac(2 * k, M * (M + 1)))]

\* the weight functions whose values are fractions
WeightFunctions == {"equal_weights", "ones_weights", "ranked_weights"}

\* self.weightfunction(experts, X, Y, points)
weightfunction(wf, experts, X, Y, points) ==
    CASE wf = "equal_weights" -> equal_weights(experts, X, Y, points)
      [] wf = "ones_weights" -> ones_weights(experts, X, Y, points)
      [] wf = "ranked_weights" -> ranked_weights(experts, X, Y, points)
      [] OTHER -> cao_fleet_weights(experts, X, Y, points)

\* ---------------------------------------------------------------- Reduction
NotImplemented == Raise("NotImplementedError")

\* (variant: the chunks are taken with a stride of M rows)
split_strided(M, T) ==
    [k \in 1..M |-> [i \in 1..(Len(T) \div M) |-> T[(i - 1) * M + k]]]

\* tf.split(0, M, T): M pieces of Len(T) / M consecutive rows
split(M, T) ==
    [k \in 1..M |-> SubSeq(T, (k - 1) * (Len(T) \div M) + 1, k * (Len(T) \div M))]

\* tf.split accepts only a number of rows that M divides
Splits(M, T) == Len(T) % M = 0

\* zip(a, b, c)
zip(a, b, c) ==
    LET n == CHOOSE n \in {Len(a), Len(b), Len(c)} :
                 n <= Len(a) /\ n <= Len(b) /\ n <= Len(c)
    IN [k \in 1..n |-> <<a[k], b[k], c[k]>>]

\* Reduction._get_chunks(X, Y)
get_chunks(children, X, Y) ==
    LET M == Len(children) IN
    IF Splits(M, X) /\ Splits(M, Y)
    THEN Ok(zip(children, split(M, X), split(M, Y)))
    ELSE Raise("ValueError")

\* Reduction.build_log_likelihood(X, Y)
Reduction_build_log_likelihood(children, X, Y) ==
    LET chunks == get_chunks(children, X, Y) IN
    IF ~chunks.ok THEN chunks
    ELSE LET lmls == [k \in 1..Len(chunks.val) |->
                 <<<<expert_log_likelihood(chunks.val[k][1], chunks.val[k][2],
                                           chunks.val[k][3]).val>>>>]
         IN Ok(reduce_sum(lmls)[1][1])

\* Reduction.build_prior_mean_var(test_points, num_latent, full_cov)
Reduction_build_prior_mean_var(children, points, L, full_cov) ==
    IF full_cov THEN NotImplemented
    ELSE LET M == Whole(Len(children))
             mu == [k \in 1..Len(children) |->
                       expert_prior(children[k], points, L, full_cov).val[1]]
             var == [k \in 1..Len(children) |->
                       expert_prior(children[k], points, L, full_cov).val[2]]
         IN Ok(<<ScalarRight(div, reduce_sum(mu), M),
                 ScalarRight(div, reduce_sum(var), M)>>)

\* the posterior means and variances of the children, each on its chunk
ChildPosteriors(chunks, points, full_cov) ==
    [k \in 1..Len(chunks) |->
        expert_posterior(chunks[k][1], chunks[k][2], chunks[k][3], points, full_cov).val]

\* (variant: every child is given the whole of X and Y)
PoEChunksWhole(children, X, Y) ==
    [k \in 1..Len(children) |-> <<children[k], X, Y>>]

\* PoEReduction.build_posterior_mean_var: chunks
PoEChunks(children, X, Y) ==
    LET M == Len(children) IN zip(children, split(M, X), split(M, Y))

\* PoEReduction.build_posterior_mean_var(X, Y, test_points, full_cov)
PoE_build_posterior_mean_var(children, X, Y, points, full_cov) ==
    IF full_cov THEN NotImplemented
    ELSE IF ~(Splits(Len(children), X) /\ Splits(Len(children), Y)) THEN Raise("ValueError")
    ELSE LET post == ChildPosteriors(PoEChunks(children, X, Y), points, full_cov)
             mu == [k \in 1..Len(post) |-> post[k][1]]
             var == [k \in 1..Len(post) |-> post[k][2]]
             joint_var == ScalarLeft(div, Whole(1),
                             reduce_sum([k \in 1..Len(var) |->
                                 ScalarLeft(div, Whole(1), var[k])]))
             joint_mu == Elementwise(mul, joint_var,
                             reduce_sum([k \in 1..Len(var) |->
                                 Elementwise(div, mu[k], var[k])]))
         IN Ok(<<joint_mu, joint_var>>)

\* (variant: the weights are left out, as in the PoE)
gPoEPrecisionUnweighted(weight, var) ==
    reduce_sum([k \in 1..Len(var) |-> ScalarLeft(div, Whole(1), var[k])])

\* gPoEReduction.build_posterior_mean_var: tf.reduce_sum(weight / var, 0)
gPoEPrecision(weight, var) ==
    reduce_sum([k \in 1..Len(var) |-> Elementwise(div, weight[k], var[k])])

\* gPoEReduction.build_posterior_mean_var(X, Y, test_points, full_cov)
gPoE_build_posterior_mean_var(children, wf, X, Y, points, full_cov) ==
    IF full_cov THEN NotImplemented
    ELSE LET chunks == get_chunks(children, X, Y) IN
    IF ~chunks.ok THEN chunks
    ELSE LET post == ChildPosteriors(chunks.val, points, full_cov)
             mu == [k \in 1..Len(post) |-> post[k][1]]
             var == [k \in 1..Len(post) |-> post[k][2]]
             weight == weightfunction(wf, children, X, Y, points)
             joint_var == ScalarLeft(div, Whole(1), gPoEPrecision(weight, var))
             joint_mu == Elementwise(mul, joint_var,
                             reduce_sum([k \in 1..Len(var) |->
                                 Elementwise(div, Elementwise(mul, weight[k], mu[k]),
                                             var[k])]))
         IN Ok(<<joint_mu, joint_var>>)

\* BCMReduction.build_posterior_mean_var(X, Y, test_points, full_cov)
BCM_build_posterior_mean_var(children, X, Y, points, full_cov) ==
    IF full_cov THEN NotImplemented
    ELSE LET chunks == get_chunks(children, X, Y) IN
    IF ~chunks.ok THEN chunks
    ELSE LET post == ChildPosteriors(chunks.val, points, full_cov)
             mu == [k \in 1..Len(post) |-> post[k][1]]
             var == [k \in 1..Len(post) |-> post[k][2]]
             num_latent == Shape(Y)[2]
             prior_var == Reduction_build_prior_mean_var(children, points,
                                                         num_latent, FALSE).val[2]
             joint_var == ScalarLeft(div, Whole(1),
                             Elementwise(add,
                                 reduce_sum([k \in 1..Len(var) |->
                                     ScalarLeft(div, Whole(1), var[k])]),
                                 ScalarLeft(div, Whole(1 - Len(children)), prior_var)))
             joint_mu == Elementwise(mul, joint_var,
                             reduce_sum([k \in 1..Len(var) |->
                                 Elementwise(div, mu[k], var[k])]))
         IN Ok(<<joint_mu, joint_var>>)

\* (variant: the prior correction is weighted by the number of children,
\* as in the BCM)
rBCMCorrectionBCM(weight, prior_var) ==
    ScalarLeft(div, Whole(1 - Len(weight)), prior_var)

\* rBCMReduction.build_posterior_mean_var: the prior correction
\* (1 - tf.reduce_sum(weight, 0)) / prior_var
rBCMCorrection(weight, prior_var) ==
    Elementwise(div, ScalarLeft(sub, Whole(1), reduce_sum(weight)), prior_var)

\* rBCMReduction.build_posterior_mean_var(X, Y, test_points, full_cov)
rBCM_build_posterior_mean_var(children, wf, X, Y, points, full_cov) ==
    IF full_cov THEN NotImplemented
    ELSE LET chunks == get_chunks(children, X, Y) IN
    IF ~chunks.ok THEN chunks
    ELSE LET post == ChildPosteriors(chunks.val, points, full_cov)
             mu == [k \in 1..Len(post) |-> post[k][1]]
             var == [k \in 1..Len(post) |-> post[k][2]]
             weight == weightfunction(wf, children, X, Y, points)
             num_latent == Shape(Y)[2]
             prior_var == Reduction_build_prior_mean_var(children, points,
                                                         num_latent, FALSE).val[2]
             joint_var == ScalarLeft(div, Whole(1),
                             Elementwise(add,
                                 reduce_sum([k \in 1..Len(var) |->
                                     Elementwise(div, weight[k], var[k])]),
                                 rBCMCorrection(weight, prior_var)))
             joint_mu == Elementwise(mul, joint_var,
                             reduce_sum([k \in 1..Len(var) |->
                                 Elementwise(div, Elementwise(mul, weight[k], mu[k]),
                                             var[k])]))
         IN Ok(<<joint_mu, joint_var>>)

\* ---------------------------------------------------- PriorDivisorReduction
\* a child of a PriorDivisorReduction: a leaf expert or a reduction
ReductionChild(children) == [kind |-> "reduction", children |-> children]

\* self.child.build_prior_mean_var(test_points, num_latent, full_cov)
child_prior(child, points, L, full_cov) ==
    IF child.kind = "reduction"
    THEN Reduction_build_prior_mean_var(child.children, points, L, full_cov)
    ELSE expert_prior(child, points, L, full_cov)

\* self.child.build_posterior_mean_var(X, Y, test_points, full_cov), the
\* reduction being a PoEReduction
child_posterior(child, X, Y, points, full_cov) ==
    IF child.kind = "reduction"
    THEN PoE_build_posterior_mean_var(child.children, X, Y, points, full_cov)
    ELSE expert_posterior(child, X, Y, points, full_cov)

\* self.child.build_log_likelihood(X, Y)
child_log_likelihood(child, X, Y) ==
    IF child.kind = "reduction"
    THEN Reduction_build_log_likelihood(child.children, X, Y)
    ELSE expert_log_likelihood(child, X, Y)

\* PriorDivisorReduction.build_log_likelihood(X, Y):
\* `return child.build_log_likelihood(X, Y)`, where no name `child` is
\* bound in the method or in the module
PriorDivisor_build_log_likelihood(child, X, Y) == Raise("NameError")

\* PriorDivisorReduction.build_prior_mean_var(test_points, num_latent, full_cov)
PriorDivisor_build_prior_mean_var(child, points, L, full_cov) ==
    child_prior(child, points, L, full_cov)

\* PriorDivisorReduction.build_posterior_mean_var(X, Y, test_points, full_cov):
\* `self.build_prior_mean_var(test_points)` lacks the required num_latent
PriorDivisor_build_posterior_mean_var(child, wf, X, Y, points, full_cov) ==
    IF full_cov THEN NotImplemented
    ELSE LET post == child_posterior(child, X, Y, points, full_cov) IN
         IF ~post.ok THEN post ELSE Raise("TypeError")

\* --------------------------------------------------------- DistributedrBCM
\* the interpreters the module is written for (`from builtins import ...`,
\* `from __future__ import division`), with and without -O
Interpreters == {"python2", "python3"}

\* reduce(operator.mul, architecture, 1)
RECURSIVE reduce_mul(_)
reduce_mul(architecture) ==
    IF architecture = <<>> THEN 1
    ELSE architecture[1] * reduce_mul(Tail(architecture))

\* DistributedrBCM.__init__(experts, architecture, ...): the experts it has
\* when it returns. `reduce` is a builtin of python 2 only, and the
\* module does not import it; assert is skipped under -O
DistributedrBCM_init(experts, architecture, interpreter, optimized) ==
    IF interpreter = "python3" THEN Raise("NameError")
    ELSE LET num_experts == reduce_mul(architecture) IN
         IF experts.kind # "sequence"
         THEN Ok([i \in 1..num_experts |-> experts])
         ELSE IF ~optimized /\ Len(experts.items) # num_experts
              THEN Raise("AssertionError")
              ELSE Ok(experts.items)

\* ------------------------------------------------ hooks that are overridden
\* an on_session_birth / on_session_death of a subclass whose body is
\* `self.get_session()`
\* for node in self: node.on_session_birth()  -- the hook is an override
on_session_birth_enter(t) ==
    /\ At(t, "mc_birth")
    /\ Top(t).todo # <<>>
    /\ LET f == Top(t) IN
       /\ trace' = [trace EXCEPT ![t] =
             Append(@, Event("birth", Head(f.todo), tf_session[f.self], NoTarget))]
       /\ hooks' = HooksWith(Head(f.todo), "birth", tf_session[f.self])
       /\ stack' = [stack EXCEPT ![t] =
             Replaced(t, [f EXCEPT !.todo = Tail(f.todo)])
               \o <<Frame("on_session_birth", Head(f.todo), "hk_call", NoTarget)>>]
    /\ UNCHANGED <<nodeVars, sessVars, ret, cur, res, raised, mark, retSince>>
    /\ UNCHANGED extVars

\* for node in self: node.on_session_death()  -- the hook is an override
on_session_death_enter(t) ==
    /\ At(t, "mk_death")
    /\ Top(t).todo # <<>>
    /\ LET f == Top(t) IN
       /\ trace' = [trace EXCEPT ![t] =
             Append(@, Event("death", Head(f.todo), tf_session[f.self], NoTarget))]
       /\ hooks' = HooksWith(Head(f.todo), "death", tf_session[f.self])
       /\ stack' = [stack EXCEPT ![t] =
             Replaced(t, [f EXCEPT !.todo = Tail(f.todo)])
               \o <<Frame("on_session_death", Head(f.todo), "hk_call", NoTarget)>>]
    /\ UNCHANGED <<nodeVars, sessVars, ret, cur, res, raised, mark, retSince>>
    /\ UNCHANGED extVars

\* the body of the override: self.get_session()
on_session_hook_call(t) ==
    /\ At(t, "hk_call")
    /\ stack' = [stack EXCEPT ![t] =
          Replaced(t, [Top(t) EXCEPT !.pc = "hk_got"])
            \o <<Frame("get_session", Top(t).self, "gs_enter", NoTarget)>>]
    /\ UNCHANGED <<nodeVars, sessVars, histVars, ret, cur, res, raised>>
    /\ UNCHANGED extVars

\* the override holds what get_session returned, and returns
on_session_hook_return(t) ==
    /\ At(t, "hk_got")
    /\ trace' = [trace EXCEPT ![t] =
          Append(@, Event(IF Top(t).fn = "on_session_birth"
                          THEN "birth_got" ELSE "death_got",
                          Top(t).self, ret[t], NoTarget))]
    /\ Leave(t, NoSession)
    /\ UNCHANGED <<nodeVars, sessVars, mark, hooks>>
    /\ UNCHANGED extVars

\* ---------------------------------------------------------- specifications
\* get_session is called only while fewer than k sessions are constructed
\* or may be under construction
Budget(k) == made + Cardinality({u \in Threads : cur[u].op = "get_session"}) < k

\* one statement of the get_session call thread t is in
StepGet(t) ==
    \/ get_session_enter(t)
    \/ get_session_return(t)
    \/ get_session_forward(t)
    \/ maybe_create_session_test(t)
    \/ maybe_create_session_new(t)
    \/ maybe_create_session_birth(t)

\* one statement of the tf_session_target assignment thread t is in
StepSet(t) ==
    \/ maybe_kill_session_test(t)
    \/ maybe_kill_session_death(t)
    \/ maybe_kill_session_close(t)
    \/ maybe_kill_session_clear(t)
    \/ tf_session_target_kill(t)
    \/ tf_session_target_store(t)

Step(t) == StepGet(t) \/ StepSet(t)

\* a single thread of control on a tree of fixed shape: the session calls
Next ==
    \/ \E n \in Nodes : Budget(MaxSessions) /\ get_session_call(MainThread, n)
    \/ \E n \in Nodes, v \in Targets : tf_session_target_call(MainThread, n, v)
    \/ Step(MainThread)

Spec == Init /\ [][Next]_vars

\* the same, with the device directive and the cache
NextDevice ==
    \/ \E n \in Nodes : Budget(MaxDeviceSessions) /\ get_session_call(MainThread, n)
    \/ \E n \in Nodes, v \in Targets :
          parent[n] = NoParent /\ tf_session_target_call(MainThread, n, v)
    \/ Step(MainThread)
    \/ \E n \in Nodes, v \in Devices : tf_device_call(MainThread, n, v)
    \/ \E n \in Nodes : fill_cache(MainThread, n)
    \/ tf_device_clear(MainThread)
    \/ tf_device_store(MainThread)

SpecDevice == Init /\ [][NextDevice]_vars

\* a single thread of control that also changes the shape of the tree
NextTree ==
    \/ \E n \in Nodes : Budget(MaxSessions) /\ get_session_call(MainThread, n)
    \/ \E n \in Nodes : fill_cache(MainThread, n)
    \/ \E p, n \in Nodes : setattr_attach(MainThread, p, n)
    \/ \E n \in Nodes : delattr_detach(MainThread, n)
    \/ StepGet(MainThread)

SpecTree == Init /\ [][NextTree]_vars

\* several threads on one tree of fixed shape; the session target of its
\* root has one writer
NextConc ==
    \E t \in Threads :
        \/ \E n \in Nodes : Budget(MaxConcSessions) /\ get_session_call(t, n)
        \/ \E n \in Nodes, v \in Targets :
              /\ t = MainThread
              /\ parent[n] = NoParent
              /\ tf_session_target_call(t, n, v)
        \/ Step(t)

InitConc == Init /\ \A n \in Nodes : n = MainRoot \/ parent[n] # NoParent

SpecConc == InitConc /\ [][NextConc]_vars

\* a single thread that opens placement contexts and calls decorated
\* methods on a forest of fixed shape, under every assignment of directives
InitPlacement ==
    /\ parent \in {p \in [Nodes -> {NoParent} \cup Nodes] :
                       \A n \in Nodes : p[n] = NoParent \/ p[n] < n}
    /\ tf_device \in [Nodes -> Directives]
    /\ tf_session_target = [n \in Nodes |-> NoTarget]
    /\ tf_session = [n \in Nodes |-> NoSession]
    /\ cache = [n \in Nodes |-> FALSE]
    /\ made = 0
    /\ owner = [s \in Sessions |-> NoParent]
    /\ stack = [t \in Threads |-> <<>>]
    /\ ret = [t \in Threads |-> NoSession]
    /\ cur = [t \in Threads |-> Idle]
    /\ res = [t \in Threads |-> NoResult]
    /\ raised = [t \in Threads |-> FALSE]
    /\ trace = [t \in Threads |-> <<>>]
    /\ mark = [n \in Nodes |-> NoSession]
    /\ hooks = [n \in Nodes |-> <<>>]
    /\ retSince = [n \in Nodes |-> NoSession]
    /\ graph = EmptyGraph
    /\ out = NoOutcome

NextPlacement ==
    \/ \E n \in Nodes : op_placement_context_call(MainThread, n)
    \/ \E n \in Nodes : tf_method_call(MainThread, n)
    \/ op_placement_context_parent(MainThread)
    \/ op_placement_context_device(MainThread)
    \/ op_placement_context_scope(MainThread)
    \/ op_placement_context_yield(MainThread)
    \/ op_placement_context_exit(MainThread)
    \/ tf_method_enter(MainThread)
    \/ tf_method_scope(MainThread)
    \/ tf_method_body_ends(MainThread)
    \/ \E c \in Nodes : tf_method_body_calls(MainThread, c)
    \/ tf_method_exit(MainThread)

SpecPlacement == InitPlacement /\ [][NextPlacement]_vars

\* ------------------------------------------------- calls into distributed
\* the children of a reduction: 1..MaxExperts leaf experts
ExpertLists == UNION {[1..M -> Experts] : M \in 1..MaxExperts}

\* the arguments of a call: children (or the single child, or the experts),
\* weight function, rows of X and Y, columns of Y, query points, full_cov
Args(children, wf, n, L, m, full_cov) ==
    [children |-> children, wf |-> wf, n |-> n, L |-> L, m |-> m, full_cov |-> full_cov]

\* no call into the module has been made
Fresh == out = NoOutcome

\* the call fn(a) returned or raised r
Called(fn, a, r) ==
    /\ out' = [fn |-> fn, arg |-> a, ok |-> r.ok, val |-> r.val]
    /\ UNCHANGED <<nodeVars, sessVars, threadVars, histVars, graph>>

call_weights ==
    Fresh /\
    \E es \in ExpertLists, n \in 1..MaxRows, L \in 1..MaxLatent, m \in 1..MaxPoints,
       wf \in WeightFunctions \cup {"cao_fleet_weights"} :
        Called(wf, Args(es, wf, n, L, m, FALSE),
               Ok(weightfunction(wf, es, DataX(n), DataY(n, L), Points(m))))

call_get_chunks ==
    Fresh /\
    \E es \in ExpertLists, n \in 1..MaxRows, L \in 1..MaxLatent :
        Called("Reduction._get_chunks", Args(es, "", n, L, 0, FALSE),
               get_chunks(es, DataX(n), DataY(n, L)))

call_Reduction_prior ==
    Fresh /\
    \E es \in ExpertLists, L \in 1..MaxLatent, m \in 1..MaxPoints, fc \in BOOLEAN :
        Called("Reduction.build_prior_mean_var", Args(es, "", 0, L, m, fc),
               Reduction_build_prior_mean_var(es, Points(m), L, fc))

call_Reduction_log_likelihood ==
    Fresh /\
    \E es \in ExpertLists, n \in 1..MaxRows, L \in 1..MaxLatent :
        Called("Reduction.build_log_likelihood", Args(es, "", n, L, 0, FALSE),
               Reduction_build_log_likelihood(es, DataX(n), DataY(n, L)))

call_PoE_posterior ==
    Fresh /\
    \E es \in ExpertLists, n \in 1..MaxRows, L \in 1..MaxLatent, m \in 1..MaxPoints,
       fc \in BOOLEAN :
        Called("PoEReduction.build_posterior_mean_var", Args(es, "", n, L, m, fc),
               PoE_build_posterior_mean_var(es, DataX(n), DataY(n, L), Points(m), fc))

call_gPoE_posterior ==
    Fresh /\
    \E es \in ExpertLists, n \in 1..MaxRows, L \in 1..MaxLatent, m \in 1..MaxPoints,
       fc \in BOOLEAN, wf \in WeightFunctions :
        Called("gPoEReduction.build_posterior_mean_var", Args(es, wf, n, L, m, fc),
               gPoE_build_posterior_mean_var(es, wf, DataX(n), DataY(n, L), Points(m), fc))

call_BCM_posterior ==
    Fresh /\
    \E es \in ExpertLists, n \in 1..MaxRows, L \in 1..MaxLatent, m \in 1..MaxPoints,
       fc \in BOOLEAN :
        Called("BCMReduction.build_posterior_mean_var", Args(es, "", n, L, m, fc),
               BCM_build_posterior_mean_var(es, DataX(n), DataY(n, L), Points(m), fc))

call_rBCM_posterior ==
    Fresh /\
    \E es \in ExpertLists, n \in 1..MaxRows, L \in 1..MaxLatent, m \in 1..MaxPoints,
       fc \in BOOLEAN, wf \in WeightFunctions :
        Called("rBCMReduction.build_posterior_mean_var", Args(es, wf, n, L, m, fc),
               rBCM_build_posterior_mean_var(es, wf, DataX(n), DataY(n, L), Points(m), fc))

\* the single child of a PriorDivisorReduction
Children == Experts \cup {ReductionChild(es) : es \in ExpertLists}

call_PriorDivisor_log_likelihood ==
    Fresh /\
    \E c \in Children, n \in 1..MaxRows, L \in 1..MaxLatent :
        Called("PriorDivisorReduction.build_log_likelihood", Args(c, "", n, L, 0, FALSE),
               PriorDivisor_build_log_likelihood(c, DataX(n), DataY(n, L)))

call_PriorDivisor_prior ==
    Fresh /\
    \E c \in Children, L \in 1..MaxLatent, m \in 1..MaxPoints, fc \in BOOLEAN :
        Called("PriorDivisorReduction.build_prior_mean_var", Args(c, "", 0, L, m, fc),
               PriorDivisor_build_prior_mean_var(c, Points(m), L, fc))

call_PriorDivisor_posterior ==
    Fresh /\
    \E c \in Children, n \in 1..MaxRows, L \in 1..MaxLatent, m \in 1..MaxPoints,
       fc \in BOOLEAN, wf \in WeightFunctions :
        Called("PriorDivisorReduction.build_posterior_mean_var", Args(c, wf, n, L, m, fc),
               PriorDivisor_build_posterior_mean_var(c, wf, DataX(n), DataY(n, L),
                                                     Points(m), fc))

\* the experts argument: one GPModel, or a sequence of them
ExpertArguments ==
    [kind : {"const"}, mu : {Whole(0)}, var : {Whole(1)}, pvar : {Whole(1)}]
      \cup {[kind |-> "sequence", items |-> es] :
               es \in UNION {[1..k -> {ConstExpert(Whole(0), Whole(1), Whole(1))}] :
                                k \in 0..MaxLeaves}}

\* the architectures: branching factors of at most two layers
Architectures ==
    {<<>>} \cup {<<a>> : a \in 1..MaxBranching}
           \cup {<<a, b>> : a \in 1..MaxBranching, b \in 1..MaxBranching}

call_DistributedrBCM_init ==
    Fresh /\
    \E e \in ExpertArguments, a \in Architectures, py \in Interpreters, o \in BOOLEAN :
        Called("DistributedrBCM.__init__",
               [experts |-> e, architecture |-> a, interpreter |-> py, optimized |-> o],
               DistributedrBCM_init(e, a, py, o))

NextReduce ==
    \/ call_weights
    \/ call_get_chunks
    \/ call_Reduction_prior
    \/ call_Reduction_log_likelihood
    \/ call_PoE_posterior
    \/ call_gPoE_posterior
    \/ call_BCM_posterior
    \/ call_rBCM_posterior
    \/ call_PriorDivisor_log_likelihood
    \/ call_PriorDivisor_prior
    \/ call_PriorDivisor_posterior
    \/ call_DistributedrBCM_init

\* the experts are free-standing models: no node has a parent
InitReduce == Init /\ \A n \in Nodes : parent[n] = NoParent

SpecReduce == InitReduce /\ [][NextReduce]_vars

\* callers that take turns (one call at a time) on a forest of fixed shape
\* whose hooks may be overrides that call get_session
StepHook(t) ==
    \/ on_session_birth_enter(t)
    \/ on_session_death_enter(t)
    \/ on_session_hook_call(t)
    \/ on_session_hook_return(t)

NextHooks ==
    \E t \in Threads :
        \/ \E n \in Nodes :
              /\ \A u \in Threads : ~Busy(u)
              /\ Budget(MaxHookSessions)
              /\ get_session_call(t, n)
        \/ \E n \in Nodes, v \in Targets :
              /\ \A u \in Threads : ~Busy(u)
              /\ parent[n] = NoParent
              /\ tf_session_target_call(t, n, v)
        \/ Step(t)
        \/ StepHook(t)

SpecHooks == Init /\ [][NextHooks]_vars


\* ------------------------------------------------------------------ claims
\* the events of kind k in the trace of thread t are as many as n
Count(t, k) == Len(OfKind(trace[t], k))
CountAt(t, k, n) == Len(OfKindAt(trace[t], k, n))
Done(t, op) == res[t].op = op /\ ~raised[t]

\* C1: two get_session calls that resolve to the same root, with no
\* assignment to that root's tf_session_target in between, return the
\* identical session, and the second constructs no session.
C1_SessionIdentity ==
    \A t \in Threads :
        (Done(t, "get_session") /\ res[t].prev # NoSession)
            => /\ res[t].val = res[t].prev
               /\ Count(t, "new") = 0

\* a second call, made on a node below the root, has returned
C1_Witness ==
    \E t \in Threads :
        /\ Done(t, "get_session")
        /\ res[t].prev # NoSession
        /\ res[t].node # res[t].root

\* C2: a root r held session s when its tf_session_target was assigned;
\* the next get_session that resolves to r returns a session other than
\* s, and since the assignment every node of r's subtree has received
\* exactly one on_session_death (about s) and then exactly one
\* on_session_birth (about the new session).
C2_Teardown ==
    \A t \in Threads :
        (Done(t, "get_session") /\ mark[res[t].root] # NoSession)
            => /\ res[t].val # NoSession
               /\ res[t].val # mark[res[t].root]
               /\ \A n \in Subtree(res[t].root) :
                     hooks[n] = << [k |-> "death", s |-> mark[res[t].root]],
                                   [k |-> "birth", s |-> res[t].val] >>

\* the get_session after the assignment has returned, for a root with
\* nodes below it
C2_Witness ==
    \E t \in Threads :
        /\ Done(t, "get_session")
        /\ mark[res[t].root] # NoSession
        /\ Cardinality(Subtree(res[t].root)) > 1
        /\ res[t].node # res[t].root

\* C3: threads that call get_session on a root that holds no session
\* construct one session between them and all receive it: a root never
\* has two open sessions constructed for it, and two callers never hold
\* different open sessions of the same root.
C3_OneConstruction ==
    /\ \A r \in Nodes : Cardinality({s \in Sessions : owner[s] = r}) <= 1
    /\ \A t, u \in Threads :
          (/\ Done(t, "get_session") /\ Done(u, "get_session")
           /\ res[t].root = res[u].root
           /\ res[t].val # NoSession /\ ~IsClosed(res[t].val)
           /\ res[u].val # NoSession /\ ~IsClosed(res[u].val))
              => res[t].val = res[u].val

\* C4: whatever the interleaving with an assignment to tf_session_target,
\* get_session returns a session (never None) that is not closed when it
\* is returned.
C4_AtomicReturn ==
    \A t \in Threads :
        Done(t, "get_session") => (res[t].val # NoSession /\ res[t].open)

\* C5: only the root owns a session: no node below a root stores one,
\* get_session on any node returns the session stored at its root, and a
\* session is constructed at a root, with the root's session target.
C5_RootOwnsSession ==
    /\ \A n \in Nodes : parent[n] # NoParent => tf_session[n] = NoSession
    /\ \A t \in Threads :
          Done(t, "get_session")
             => (res[t].val # NoSession /\ res[t].val = tf_session[res[t].root])
    /\ \A t \in Threads : \A i \in 1..Len(trace[t]) :
          trace[t][i].k = "new"
             => /\ parent[trace[t][i].n] = NoParent
                /\ trace[t][i].x = tf_session_target[trace[t][i].n]

\* get_session on a node below the root constructed the session, and the
\* node's own session target differs from the root's
C5_Witness ==
    \E t \in Threads :
        /\ Done(t, "get_session")
        /\ res[t].node # res[t].root
        /\ Count(t, "new") = 1
        /\ tf_session_target[res[t].node] # tf_session_target[res[t].root]

\* C6: a get_session whose root held no session constructs and stores the
\* session first and then calls on_session_birth exactly once on every
\* node of the root's subtree, the root included, and on no other node; a
\* get_session that finds a stored session returns it and calls no hook.
C6_Birth ==
    /\ \A t \in Threads : At(t, "mc_birth") => tf_session[Top(t).self] # NoSession
    /\ \A t \in Threads :
          Done(t, "get_session") =>
             IF res[t].had = NoSession
             THEN /\ Len(trace[t]) = 1 + Cardinality(Subtree(res[t].root))
                  /\ trace[t][1].k = "new"
                  /\ trace[t][1].n = res[t].root
                  /\ trace[t][1].s = res[t].val
                  /\ \A i \in 2..Len(trace[t]) :
                        trace[t][i].k = "birth" /\ trace[t][i].s = res[t].val
                  /\ \A n \in Subtree(res[t].root) : CountAt(t, "birth", n) = 1
             ELSE trace[t] = <<>> /\ res[t].val = res[t].had

\* a first get_session has returned for a root with nodes below it
C6_Witness ==
    \E t \in Threads :
        /\ Done(t, "get_session")
        /\ res[t].had = NoSession
        /\ Cardinality(Subtree(res[t].root)) > 1

C8_ReparentInvalidates ==
    \A t \in Threads :
        Done(t, "setattr")
           => \A m \in Subtree(res[t].node) : ~cache[m] /\ tf_session[m] = NoSession

\* C9: an assignment to tf_device on any node, of any value, has emptied
\* the cache of every node of the subtree by the time the directive is
\* stored, and changes no stored session, no session target and no
\* session's state, and calls no hook.
C9_DeviceInvalidates ==
    /\ [](\A t \in Threads :
            /\ At(t, "sd_store") => \A m \in Subtree(Top(t).self) : ~cache[m]
            /\ Done(t, "tf_device")
                 => /\ tf_device[res[t].node] = res[t].arg
                    /\ \A m \in Subtree(res[t].node) : ~cache[m]
                    /\ trace[t] = <<>>)
    /\ [][\A t \in Threads :
            cur[t].op = "tf_device"
               => UNCHANGED <<tf_session, tf_session_target, made, owner, trace, hooks>>]_vars

\* NO_DEVICE has been assigned to a node below a root that stores a
\* session, while a cache outside the node's subtree is filled
C9_Witness ==
    \E t \in Threads :
        /\ Done(t, "tf_device")
        /\ res[t].arg = NO_DEVICE
        /\ res[t].node # res[t].root
        /\ tf_session[res[t].root] # NoSession
        /\ cache[res[t].root]

\* C10: an assignment to tf_session_target on a root tears the stored
\* session down (closed, reference unset) and changes no node's cache and
\* no node's device directive.
C10_TargetKeepsCache ==
    /\ [](\A t \in Threads :
            (Done(t, "tf_session_target") /\ res[t].had # NoSession)
               => (IsClosed(res[t].had) /\ tf_session[res[t].node] = NoSession))
    /\ [][\A t \in Threads :
            cur[t].op = "tf_session_target" => UNCHANGED <<cache, tf_device>>]_vars

\* a session has been torn down in a tree with a filled cache and a
\* device directive
C10_Witness ==
    \E t \in Threads :
        /\ Done(t, "tf_session_target")
        /\ res[t].had # NoSession
        /\ \E m \in Subtree(res[t].node) : cache[m]
        /\ \E m \in Subtree(res[t].node) : tf_device[m] # DeviceUnset

\* the directive d applied to the inherited context ctx: unset keeps it,
\* NO_DEVICE empties it, a device string overrides the fields it names
Override(ctx, d) ==
    CASE d = DeviceUnset -> ctx
      [] d = NO_DEVICE -> EmptySpec
      [] OTHER -> [job |-> IF from_string(d).job # "" THEN from_string(d).job ELSE ctx.job,
                   device |-> IF from_string(d).device # ""
                              THEN from_string(d).device ELSE ctx.device]

\* the fold of the directives along the chain from the root to n
RECURSIVE Resolved(_)
Resolved(n) ==
    Override(IF parent[n] = NoParent THEN EmptySpec ELSE Resolved(parent[n]), tf_device[n])

\* C11: inside `with n.op_placement_context():` the device an op gets is
\* the fold of the directives along the chain from the root to n (unset
\* inherits, a device string overrides the fields it names, NO_DEVICE
\* resets to empty), so a node with an unset directive gets its parent's.
C11_PlacementFold ==
    \A t \in Threads :
        (At(t, "pc_yield") /\ Len(stack[t]) = 1)
           => /\ OpDevice = Resolved(Top(t).self)
              /\ (tf_device[Top(t).self] = DeviceUnset /\ parent[Top(t).self] # NoParent)
                    => OpDevice = Resolved(parent[Top(t).self])

\* the context of a node two levels down is open; the node overrides the
\* job of its grandparent and inherits the device of its parent
C11_Witness ==
    \E t \in Threads :
        /\ At(t, "pc_yield") /\ Len(stack[t]) = 1
        /\ Depth(Top(t).self) = 3
        /\ tf_device[Top(t).self] = "/job:spoon"
        /\ tf_device[parent[Top(t).self]] = "/device:GPU:0"
        /\ tf_device[highest_parent(Top(t).self)] = "/job:worker"
        /\ OpDevice = [job |-> "spoon", device |-> "GPU:0"]

\* whether every exit in tr leaves the context entered last among those
\* still open
RECURSIVE Nested(_, _)
Nested(tr, open) ==
    IF tr = <<>> THEN TRUE
    ELSE IF Head(tr).k = "enter"
         THEN Nested(Tail(tr), Append(open, Head(tr).s))
         ELSE /\ open # <<>>
              /\ open[Len(open)] = Head(tr).s
              /\ Nested(Tail(tr), SubSeq(open, 1, Len(open) - 1))

\* C12: the body of a decorated method of a node runs with the node's
\* resolved device and a name scope of the node active, also when it is
\* called from a method of the node's parent; when the call returns or
\* raises, the device stack and the name scope are what they were before
\* the call, the contexts having been left in reverse order of entry.
C12_MethodContext ==
    \A t \in Threads :
        /\ (At(t, "tm_body") \/ At(t, "tm_tail"))
              => /\ OpDevice = Resolved(Top(t).self)
                 /\ graph.scope = MethodScope(Top(t).self)
        /\ (At(t, "tm_exit") /\ Top(t).todo = <<>>) => graph = Top(t).val.saved
        /\ res[t].op = "tf_method"
              => (graph = EmptyGraph /\ Count(t, "exit") = Count(t, "enter"))
        /\ (cur[t].op = "tf_method" \/ res[t].op = "tf_method") => Nested(trace[t], <<>>)

\* a method of a root called a method of a child, an exception went
\* through both, and the call has ended
C12_Witness ==
    \E t \in Threads :
        /\ res[t].op = "tf_method" /\ raised[t]
        /\ parent[res[t].node] = NoParent
        /\ tf_device[res[t].node] # DeviceUnset
        /\ Count(t, "enter") >= 9
        /\ Count(t, "exit") = Count(t, "enter")

\* the arguments of the call made, spelled out
ArgX == DataX(out.arg.n)
ArgY == DataY(out.arg.n, out.arg.L)
ArgPoints == Points(out.arg.m)
\* rows k of M equal pieces of T
Piece(T, k, M) ==
    [i \in 1..(Len(T) \div M) |-> T[(k - 1) * (Len(T) \div M) + i]]
\* the posterior <<mean, variance>> of child k given piece k of the data
OnPiece(k) ==
    expert_posterior(out.arg.children[k],
                     Piece(ArgX, k, Len(out.arg.children)),
                     Piece(ArgY, k, Len(out.arg.children)), ArgPoints, FALSE).val
\* the sum of a sequence of numbers, the concatenation of a sequence of tensors
RECURSIVE SumOf(_)
SumOf(xs) == IF xs = <<>> THEN Whole(0) ELSE add(Head(xs), SumOf(Tail(xs)))
RECURSIVE Concat(_)
Concat(Ts) == IF Ts = <<>> THEN <<>> ELSE Head(Ts) \o Concat(Tail(Ts))
\* the scenario's stub expert: posterior and prior mean 0, variance 1
Stub == ConstExpert(Whole(0), Whole(1), Whole(1))

\* C13: build_prior_mean_var and build_posterior_mean_var of every
\* reduction class raise NotImplementedError when full_cov is true,
\* whatever the children are.
C13_FullCovRejected ==
    (/\ out.fn \in {"Reduction.build_prior_mean_var",
                    "PoEReduction.build_posterior_mean_var",
                    "gPoEReduction.build_posterior_mean_var",
                    "BCMReduction.build_posterior_mean_var",
                    "rBCMReduction.build_posterior_mean_var",
                    "PriorDivisorReduction.build_prior_mean_var",
                    "PriorDivisorReduction.build_posterior_mean_var"}
     /\ out.arg.full_cov)
       => (~out.ok /\ out.val = "NotImplementedError")

\* C14: when the number of rows is a multiple of the number M of
\* children, _get_chunks gives M triples (child k, X_k, Y_k) in child
\* order, X_k and Y_k being the same N/M consecutive rows of X and of Y,
\* and the X_k (the Y_k) put end to end give X (Y).
C14_Chunks ==
    (out.fn = "Reduction._get_chunks" /\ out.arg.n % Len(out.arg.children) = 0)
       => LET M == Len(out.arg.children)
              c == out.arg.n \div M
          IN /\ out.ok
             /\ Len(out.val) = M
             /\ \A k \in 1..M :
                   /\ out.val[k][1] = out.arg.children[k]
                   /\ Len(out.val[k][2]) = c
                   /\ Len(out.val[k][3]) = c
                   /\ \A i \in 1..c :
                         /\ out.val[k][2][i] = ArgX[(k - 1) * c + i]
                         /\ out.val[k][3][i] = ArgY[(k - 1) * c + i]
             /\ Concat([k \in 1..M |-> out.val[k][2]]) = ArgX
             /\ Concat([k \in 1..M |-> out.val[k][3]]) = ArgY

\* six rows were split among three different children
C14_Witness ==
    /\ out.fn = "Reduction._get_chunks"
    /\ out.ok
    /\ Len(out.arg.children) = 3
    /\ out.arg.n = 6
    /\ out.arg.L = 2
    /\ out.arg.children[1] # out.arg.children[2]

\* C15: ones_weights, equal_weights and cao_fleet_weights each return one
\* tensor per expert, of shape (query points, latent outputs).
C15_WeightShapes ==
    out.fn \in {"ones_weights", "equal_weights", "cao_fleet_weights"}
       => /\ Len(out.val) = Len(out.arg.children)
          /\ \A k \in 1..Len(out.val) : Shape(out.val[k]) = <<out.arg.m, out.arg.L>>

C17_rBCMIsgPoE ==
    (out.fn = "rBCMReduction.build_posterior_mean_var" /\ out.ok)
       => LET weight == weightfunction(out.arg.wf, out.arg.children, ArgX, ArgY, ArgPoints)
              gpoe == gPoE_build_posterior_mean_var(out.arg.children, out.arg.wf,
                                                    ArgX, ArgY, ArgPoints, FALSE)
          IN \A i \in 1..out.arg.m :
                SumOf([k \in 1..Len(weight) |-> weight[k][i][1]]) = Whole(1)
                   => /\ gpoe.ok
                      /\ out.val[1][i] = gpoe.val[1][i]
                      /\ out.val[2][i] = gpoe.val[2][i]

\* an rBCM of three experts with unequal weights that sum to 1
C17_Witness ==
    /\ out.fn = "rBCMReduction.build_posterior_mean_var"
    /\ out.ok
    /\ out.arg.wf = "ranked_weights"
    /\ Len(out.arg.children) = 3
    /\ out.arg.children[1] = BayesExpert(Whole(1))
    /\ out.arg.children[2] # out.arg.children[3]
    /\ IsFinite(out.val[2][1][1])

\* C18 as stated: the rBCM of two stub experts (posterior mean 0 and
\* variance 1, prior variance 1) with weights 1/2 and 1/2 has a joint
\* variance of 1/2 at every query point.
C18_Original ==
    (/\ out.fn = "rBCMReduction.build_posterior_mean_var" /\ out.ok
     /\ out.arg.children = <<Stub, Stub>>
     /\ out.arg.wf = "equal_weights")
       => out.val[2] = fill(out.arg.m, out.arg.L, Frac(1, 2))

\* C18, amended: that rBCM has a joint mean of 0 and a joint variance of
\* 1 at every query point: the weighted precisions sum to 1 and the prior
\* correction is zero.
C18_rBCMExample ==
    (/\ out.fn = "rBCMReduction.build_posterior_mean_var" /\ out.ok
     /\ out.arg.children = <<Stub, Stub>>
     /\ out.arg.wf = "equal_weights")
       => /\ out.val[1] = fill(out.arg.m, out.arg.L, Whole(0))
          /\ out.val[2] = fill(out.arg.m, out.arg.L, Whole(1))

\* the rBCM of the two stubs with equal weights, at two query points
C18_Witness ==
    /\ out.fn = "rBCMReduction.build_posterior_mean_var"
    /\ out.ok
    /\ out.arg.children = <<Stub, Stub>>
    /\ out.arg.wf = "equal_weights"
    /\ out.arg.m = 2
    /\ out.arg.n = 6

\* the product of the branching factors
RECURSIVE LeafCount(_)
LeafCount(a) == IF a = <<>> THEN 1 ELSE Head(a) * LeafCount(Tail(a))

\* C19: DistributedrBCM needs as many experts as the product of the
\* branching factors: a sequence of another length makes construction
\* fail, and a single expert is copied to that many.
C19_Construction ==
    out.fn = "DistributedrBCM.__init__"
       => IF out.arg.experts.kind = "sequence"
          THEN Len(out.arg.experts.items) # LeafCount(out.arg.architecture) => ~out.ok
          ELSE /\ out.ok
               /\ Len(out.val) = LeafCount(out.arg.architecture)
               /\ \A i \in 1..Len(out.val) : out.val[i] = out.arg.experts

\* C20: PriorDivisorReduction returns what its child returns for
\* build_log_likelihood and for build_prior_mean_var whenever the child
\* succeeds, and its build_posterior_mean_var then completes.
C20_Delegation ==
    /\ out.fn = "PriorDivisorReduction.build_log_likelihood"
          => LET c == child_log_likelihood(out.arg.children, ArgX, ArgY) IN
             c.ok => (out.ok /\ out.val = c.val)
    /\ out.fn = "PriorDivisorReduction.build_prior_mean_var"
          => LET c == child_prior(out.arg.children, ArgPoints, out.arg.L,
                                  out.arg.full_cov) IN
             c.ok => (out.ok /\ out.val = c.val)
    /\ (out.fn = "PriorDivisorReduction.build_posterior_mean_var" /\ ~out.arg.full_cov)
          => (child_posterior(out.arg.children, ArgX, ArgY, ArgPoints, FALSE).ok
                 => out.ok)

\* the positions of a trace that hold an event of kind k
Where(tr, k) == {i \in 1..Len(tr) : tr[i].k = k}
\* the hook of kind k that the call at position i of tr was made from: the
\* last delivery of k to that node before i
Delivery(tr, i, k) ==
    LET js == {j \in 1..(i - 1) : tr[j].k = k /\ tr[j].n = tr[i].n}
    IN tr[CHOOSE j \in js : \A h \in js : h <= j]

====
